---- MODULE Spec2Model ----
(***************************************************************************)
(* Model of run() in src/main.ts: the label reconciler of the action.      *)
(* A run parses and validates the manifest into fileLabelsMap, then (when  *)
(* the mode is not 'add') walks the remote label listing page by page,     *)
(* updating or deleting each listed label, and finally creates every       *)
(* entry left in fileLabelsMap.  Every awaited remote call is one step; a  *)
(* rejected call throws into the catch block of run() and ends the run.    *)
(***************************************************************************)
EXTENDS Integers, Sequences, FiniteSets, TLC

\* ---------------------------------------------------------------- bounds
MaxManifest == 3      \* longest manifest array
MaxRemote == 3        \* most labels on the repository when the first run starts
MaxRuns == 2          \* runs of the action in succession

\* per_page of listLabelsForRepo.  The action asks for 100; the model keeps
\* the arithmetic of the paging and scales the page down so that a listing
\* of MaxRemote labels spans more than one page.
PER_PAGE == 2

\* ---------------------------------------------------------------- values
\* A property that is absent from a JSON object (undefined / null).
NONE == "undefined"

\* Label names: those the repository may hold, in listing order, and those a
\* manifest may name.
NameList == <<"bug", "docs", "wontfix", "help">>
ManifestNames == {"bug", "docs"}

\* What the 'mode' input may hold; "" is the input left unset.
ModeInputs == {"", "add", "update", "delete", "remove"}

\* core.getInput('mode') || 'update'
ResolveMode(input) == IF input = "" THEN "update" ELSE input

\* JavaScript truthiness of a string-or-absent value: !v
Falsy(v) == v = NONE \/ v = ""

\* v || ''
OrEmpty(v) == IF Falsy(v) THEN "" ELSE v

Label(n, c, d) == [name |-> n, color |-> c, description |-> d]

\* Entries a manifest array is drawn from: valid ones, one without a name
\* and one without a color.
ManifestEntries ==
    {Label(n, "00ff00", "text") : n \in ManifestNames}
    \cup {Label("bug", "ff0000", NONE)}
    \cup {Label("", "ff0000", NONE), Label("bug", NONE, "text")}

Manifests == UNION {[1..n -> ManifestEntries] : n \in 0..MaxManifest}

\* Colour and description a label on the repository may start with.
RemoteAttrs == {<<"ff0000", NONE>>, <<"ff0000", "text">>, <<"00ff00", NONE>>}

\* The labels of the repository in listing order: names are unique.
RECURSIVE RemotesOver(_)
RemotesOver(k) ==
    IF k = 0 THEN {<<>>}
    ELSE LET rest == RemotesOver(k - 1)
         IN  rest \cup
             {Append(r, Label(NameList[k], a[1], a[2])) :
                 r \in rest, a \in RemoteAttrs}

Remotes == {r \in RemotesOver(IF MaxRemote < Len(NameList) THEN MaxRemote ELSE Len(NameList)) :
               Len(r) <= MaxRemote}

\* ------------------------------------------------ fileLabelsMap (a JS Map)
\* A Map is kept as the sequence of its entries in insertion order.
MapHas(m, n) == \E i \in 1..Len(m) : m[i].name = n

MapGet(m, n) == m[CHOOSE i \in 1..Len(m) : m[i].name = n]

\* Map.prototype.set as a buggy variant would do it: a key that is set again
\* moves to the end of the iteration order.
MapSetMovesKey(m, e) ==
    Append(SelectSeq(m, LAMBDA x : x.name # e.name), e)

\* Map.prototype.set: a key that is set again keeps its place and takes the
\* new value; a new key goes to the end.
MapSet(m, e) ==
    IF MapHas(m, e.name)
    THEN [i \in 1..Len(m) |-> IF m[i].name = e.name THEN e ELSE m[i]]
    ELSE Append(m, e)

\* Map.prototype.delete that leaves the entry in the map.
MapDeleteKeeps(m, n) == m

\* Map.prototype.delete
MapDelete(m, n) == SelectSeq(m, LAMBDA x : x.name # n)

\* Validation that forgets the color.
IsValidNameOnly(label) == ~Falsy(label.name)

\* if (!label.name || !label.color) throw ...
IsValid(label) == ~(Falsy(label.name) \/ Falsy(label.color))

\* The loop of step 4 over the first k entries of the manifest.
RECURSIVE BuildMap(_, _)
BuildMap(content, k) ==
    IF k = 0 THEN <<>>
    ELSE MapSet(BuildMap(content, k - 1),
                Label(content[k].name, content[k].color,
                      OrEmpty(content[k].description)))

AllValid(content) == \A i \in 1..Len(content) : IsValid(content[i])

\* Step 5 runs for every mode but 'add' -- as a buggy variant: for every mode.
ListsRemoteAlways(m) == TRUE

\* if (mode !== 'add')
ListsRemote(m) == m # "add"

\* Comparison without the empty-string normalization.
DiffersRaw(label, fileLabel) ==
    label.color # fileLabel.color \/ label.description # fileLabel.description

\* label.color !== fileLabel.color ||
\* (label.description || '') !== (fileLabel.description || '')
Differs(label, fileLabel) ==
    label.color # fileLabel.color
    \/ OrEmpty(label.description) # OrEmpty(fileLabel.description)

\* ---------------------------------------------------- the label service
RemoteHas(r, n) == \E i \in 1..Len(r) : r[i].name = n

\* One page of the listing, cut out of the labels that exist at the time of
\* the request.
PageOf(r, p) ==
    SubSeq(r, (p - 1) * PER_PAGE + 1,
           IF p * PER_PAGE < Len(r) THEN p * PER_PAGE ELSE Len(r))

\* The response carries a rel="next" link when labels lie beyond the page.
HasNextPage(r, p) == Len(r) > p * PER_PAGE

Call(op, n, c, d, ok) ==
    [op |-> op, name |-> n, color |-> c, description |-> d, ok |-> ok]

\* The repository after a call the service accepted.
Apply(r, call) ==
    CASE call.op = "Create" -> Append(r, Label(call.name, call.color, call.description))
      [] call.op = "Update" ->
            [i \in 1..Len(r) |->
                IF r[i].name = call.name
                THEN Label(call.name, call.color, call.description)
                ELSE r[i]]
      [] call.op = "Delete" -> SelectSeq(r, LAMBDA x : x.name # call.name)
      [] OTHER -> r

\* Outcomes the service may give a call: it rejects a Create of a name that
\* exists and an Update or Delete of one that does not; any call may fail.
Outcomes(r, op, n) ==
    CASE op = "Create" -> IF RemoteHas(r, n) THEN {FALSE} ELSE BOOLEAN
      [] op \in {"Update", "Delete"} -> IF RemoteHas(r, n) THEN BOOLEAN ELSE {FALSE}
      [] OTHER -> BOOLEAN

\* ---------------------------------------------------------------- state
VARIABLES
    mode,           \* const mode
    manifest,       \* fileContent, the parsed manifest file
    remote,         \* the labels on the repository, in listing order
    pc,             \* where run() stands
    fileLabelsMap,  \* const fileLabelsMap
    page,           \* the page the iterator asks for next
    labels,         \* what is left of the page being walked
    hasNext,        \* whether the last page fetched has a successor
    cursor,         \* position of the loop of step 6 in fileLabelsMap
    calls,          \* the calls this run has made to the label service
    run,            \* which run of the action this is
    remote0,        \* the repository when this run started
    prevCalls       \* the calls of the run before this one

vars == <<mode, manifest, remote, pc, fileLabelsMap, page, labels, hasNext,
          cursor, calls, run, remote0, prevCalls>>

Init ==
    /\ mode \in {ResolveMode(i) : i \in ModeInputs}
    /\ manifest \in Manifests
    /\ remote \in Remotes
    /\ pc = "start"
    /\ fileLabelsMap = <<>>
    /\ page = 1
    /\ labels = <<>>
    /\ hasNext = FALSE
    /\ cursor = 1
    /\ calls = <<>>
    /\ run = 1
    /\ remote0 = remote
    /\ prevCalls = <<>>

\* Where run() goes after a remote call: on, or into the catch block.
AfterCallIgnoringFailure(ok, next) == next

AfterCall(ok, next) == IF ok THEN next ELSE "failed"

\* The for-await loop: walk the rest of the page, else ask for the next
\* page, else leave the loop for step 6.
LoopPc(rest, more) ==
    IF rest # <<>> THEN "labels" ELSE IF more THEN "list" ELSE "create"

\* Steps 3 and 4: the manifest is validated and turned into fileLabelsMap.
Parse ==
    /\ pc = "start"
    /\ IF AllValid(manifest)
       THEN /\ fileLabelsMap' = BuildMap(manifest, Len(manifest))
            /\ pc' = IF ListsRemote(mode) THEN "list" ELSE "create"
       ELSE /\ fileLabelsMap' = fileLabelsMap
            /\ pc' = "failed"
    /\ UNCHANGED <<mode, manifest, remote, page, labels, hasNext, cursor,
                   calls, run, remote0, prevCalls>>

\* The iterator requests one page of the listing.
FetchPage ==
    /\ pc = "list"
    /\ \E ok \in Outcomes(remote, "List", NONE) :
        /\ calls' = Append(calls, Call("List", NONE, NONE, NONE, ok))
        /\ IF ok
           THEN /\ labels' = PageOf(remote, page)
                /\ hasNext' = HasNextPage(remote, page)
                /\ page' = page + 1
                /\ pc' = LoopPc(labels', hasNext')
           ELSE /\ pc' = "failed"
                /\ UNCHANGED <<labels, hasNext, page>>
    /\ UNCHANGED <<mode, manifest, remote, fileLabelsMap, cursor, run,
                   remote0, prevCalls>>

\* The body of the inner loop for one listed label.
ProcessLabel ==
    /\ pc = "labels"
    /\ labels # <<>>
    /\ LET label == Head(labels)
           rest == Tail(labels)
       IN  IF mode = "update"
           THEN IF MapHas(fileLabelsMap, label.name)
                THEN LET fileLabel == MapGet(fileLabelsMap, label.name)
                     IN  IF Differs(label, fileLabel)
                         THEN \E ok \in Outcomes(remote, "Update", label.name) :
                                LET c == Call("Update", label.name, fileLabel.color,
                                              fileLabel.description, ok)
                                IN  /\ calls' = Append(calls, c)
                                    /\ remote' = IF ok THEN Apply(remote, c) ELSE remote
                                    /\ pc' = AfterCall(ok, LoopPc(rest, hasNext))
                                    /\ fileLabelsMap' =
                                         IF ok THEN MapDelete(fileLabelsMap, label.name)
                                         ELSE fileLabelsMap
                                    /\ labels' = IF ok THEN rest ELSE labels
                         ELSE /\ fileLabelsMap' = MapDelete(fileLabelsMap, label.name)
                              /\ labels' = rest
                              /\ pc' = LoopPc(rest, hasNext)
                              /\ UNCHANGED <<calls, remote>>
                ELSE /\ labels' = rest
                     /\ pc' = LoopPc(rest, hasNext)
                     /\ UNCHANGED <<calls, remote, fileLabelsMap>>
           ELSE \E ok \in Outcomes(remote, "Delete", label.name) :
                  LET c == Call("Delete", label.name, NONE, NONE, ok)
                  IN  /\ calls' = Append(calls, c)
                      /\ remote' = IF ok THEN Apply(remote, c) ELSE remote
                      /\ pc' = AfterCall(ok, LoopPc(rest, hasNext))
                      /\ labels' = IF ok THEN rest ELSE labels
                      /\ UNCHANGED fileLabelsMap
    /\ UNCHANGED <<mode, manifest, page, hasNext, cursor, run, remote0, prevCalls>>

\* Step 6, one entry of fileLabelsMap.
CreateLabel ==
    /\ pc = "create"
    /\ cursor <= Len(fileLabelsMap)
    /\ LET e == fileLabelsMap[cursor]
       IN  \E ok \in Outcomes(remote, "Create", e.name) :
             LET c == Call("Create", e.name, e.color, e.description, ok)
             IN  /\ calls' = Append(calls, c)
                 /\ remote' = IF ok THEN Apply(remote, c) ELSE remote
                 /\ pc' = AfterCall(ok, "create")
                 /\ cursor' = IF ok THEN cursor + 1 ELSE cursor
    /\ UNCHANGED <<mode, manifest, fileLabelsMap, page, labels, hasNext, run,
                   remote0, prevCalls>>

\* The loop of step 6 is over: run() resolves.
Finish ==
    /\ pc = "create"
    /\ cursor > Len(fileLabelsMap)
    /\ pc' = "done"
    /\ UNCHANGED <<mode, manifest, remote, fileLabelsMap, page, labels, hasNext,
                   cursor, calls, run, remote0, prevCalls>>

\* The action is run again with the same inputs, nobody else having touched
\* the repository.
Rerun ==
    /\ pc = "done"
    /\ run < MaxRuns
    /\ run' = run + 1
    /\ pc' = "start"
    /\ fileLabelsMap' = <<>>
    /\ page' = 1
    /\ labels' = <<>>
    /\ hasNext' = FALSE
    /\ cursor' = 1
    /\ prevCalls' = calls
    /\ calls' = <<>>
    /\ remote0' = remote
    /\ UNCHANGED <<mode, manifest, remote>>

Next ==
    \/ Parse
    \/ FetchPage
    \/ ProcessLabel
    \/ CreateLabel
    \/ Finish
    \/ Rerun

Spec == Init /\ [][Next]_vars

\* ====================================================== claims
\* The calls of this run that change the repository.
MutationCalls == SelectSeq(calls, LAMBDA c : c.op # "List")

CallIdx == 1..Len(calls)

Count(op, n) ==
    Cardinality({i \in CallIdx : calls[i].op = op /\ calls[i].name = n})

NamesOf(content) == {content[i].name : i \in 1..Len(content)}

\* Position of the first entry of a sequence of labels that carries name n.
FirstIndex(content, n) ==
    CHOOSE i \in 1..Len(content) :
        /\ content[i].name = n
        /\ \A j \in 1..(i - 1) : content[j].name # n

\* The last entry of the manifest that carries name n.
LastEntry(n) ==
    manifest[CHOOSE i \in 1..Len(manifest) :
                /\ manifest[i].name = n
                /\ \A j \in (i + 1)..Len(manifest) : manifest[j].name # n]

\* A description with absence read as the empty string.
Norm(d) == IF d = NONE THEN "" ELSE d

HasInvalidEntry ==
    \E i \in 1..Len(manifest) :
        \/ manifest[i].name \in {NONE, ""}
        \/ manifest[i].color \in {NONE, ""}

HasDuplicateName ==
    \E i, j \in 1..Len(manifest) : i < j /\ manifest[i].name = manifest[j].name

\* C1: in delete mode a run never issues a Create call.
C1_DeleteModeNeverCreates ==
    mode = "delete" => \A i \in CallIdx : calls[i].op # "Create"

\* C2: a manifest with an entry whose name or color is empty or missing leads
\* to no remote call at all, in every mode and wherever the entry sits.
C2_InvalidManifestNoCalls ==
    HasInvalidEntry => calls = <<>>

\* C2 witness: a run has failed on a manifest whose first entry is valid and
\* a later one is not, with labels on the repository.
C2_Witness ==
    /\ pc = "failed"
    /\ Len(manifest) >= 2
    /\ manifest[1].name \notin {NONE, ""}
    /\ manifest[1].color \notin {NONE, ""}
    /\ HasInvalidEntry
    /\ remote # <<>>
    /\ calls = <<>>

\* C3: a delete-mode run that completes without a rejected call has issued
\* exactly one Delete for every label that was on the repository at its start.
C3_DeleteModeDeletesEveryLabel ==
    (mode = "delete" /\ pc = "done") =>
        \A i \in 1..Len(remote0) : Count("Delete", remote0[i].name) = 1

\* C4: every page fetch of a run precedes its first mutation call.
C4_FetchesBeforeMutations ==
    \A i, j \in CallIdx :
        (i < j /\ calls[i].op # "List") => calls[j].op # "List"

\* C5: an update-mode run that follows a completed run with the same manifest
\* issues no mutation call.
C5_SecondUpdateRunIdle ==
    (mode = "update" /\ run > 1) => MutationCalls = <<>>

\* C5 witness: the second run has completed after a first run that updated
\* and created labels from a manifest with a repeated name.
C5_Witness ==
    /\ mode = "update"
    /\ run = 2
    /\ pc = "done"
    /\ HasDuplicateName
    /\ \E i \in 1..Len(prevCalls) : prevCalls[i].op = "Update"
    /\ \E i \in 1..Len(prevCalls) : prevCalls[i].op = "Create"

\* The repository after the accepted calls of a sequence, applied in order.
RECURSIVE Replay(_, _)
Replay(r, cs) ==
    IF cs = <<>> THEN r
    ELSE Replay(IF Head(cs).ok THEN Apply(r, Head(cs)) ELSE r, Tail(cs))

\* C6: a rejected call is the last call of its run, and the repository holds
\* exactly the effects of the calls accepted before it.
C6_FailureAbortsNoRollback ==
    /\ \A i \in CallIdx : ~calls[i].ok => i = Len(calls)
    /\ remote = Replay(remote0, calls)

\* C6 witness: a run has failed on a mutation call after another mutation
\* call had changed the repository.
C6_Witness ==
    /\ pc = "failed"
    /\ Len(MutationCalls) >= 2
    /\ ~calls[Len(calls)].ok
    /\ calls[Len(calls)].op # "List"
    /\ remote # remote0

C8_PhaseOrder ==
    \A i, j \in CallIdx :
        i < j =>
            /\ calls[i].op = "Create" => calls[j].op \notin {"Update", "Delete"}
            /\ (calls[i].op \in {"Update", "Delete"} /\ calls[j].op \in {"Update", "Delete"})
                  => FirstIndex(remote0, calls[i].name) < FirstIndex(remote0, calls[j].name)
            /\ (calls[i].op = "Create" /\ calls[j].op = "Create")
                  => FirstIndex(manifest, calls[i].name) < FirstIndex(manifest, calls[j].name)

\* C8 witness: two listed labels were updated or deleted and then two labels
\* were created, the first of them named again at the end of the manifest.
C8_Witness ==
    /\ Cardinality({i \in CallIdx : calls[i].op \in {"Update", "Delete"}}) >= 2
    /\ Cardinality({i \in CallIdx : calls[i].op = "Create"}) >= 2
    /\ Len(manifest) >= 3
    /\ manifest[1].name = manifest[Len(manifest)].name
    /\ calls[Len(calls)].op = "Create"

\* What an update-mode run has to issue, from the manifest and the labels
\* the repository had when the run started.
ExpectedUpdates ==
    {Call("Update", remote0[i].name, LastEntry(remote0[i].name).color,
          Norm(LastEntry(remote0[i].name).description), TRUE) :
        i \in {k \in 1..Len(remote0) :
                 /\ remote0[k].name \in NamesOf(manifest)
                 /\ \/ remote0[k].color # LastEntry(remote0[k].name).color
                    \/ Norm(remote0[k].description)
                          # Norm(LastEntry(remote0[k].name).description)}}

ExpectedCreates ==
    {Call("Create", n, LastEntry(n).color, Norm(LastEntry(n).description), TRUE) :
        n \in NamesOf(manifest) \ NamesOf(remote0)}

\* C9: a completed update-mode run has issued exactly one Update per listed
\* label that differs from the manifest's last entry of its name, one Create
\* per manifest name absent from the repository, and nothing else.
C9_UpdateModeCalls ==
    (mode = "update" /\ pc = "done") =>
        /\ {MutationCalls[i] : i \in 1..Len(MutationCalls)}
              = ExpectedUpdates \cup ExpectedCreates
        /\ Len(MutationCalls) = Cardinality(ExpectedUpdates \cup ExpectedCreates)

\* C9 witness: a completed first update-mode run that updated a label,
\* created one, left a matching label and a label absent from the manifest
\* alone.
C9_Witness ==
    /\ mode = "update"
    /\ pc = "done"
    /\ run = 1
    /\ \E i \in CallIdx : calls[i].op = "Update"
    /\ \E i \in CallIdx : calls[i].op = "Create"
    /\ \E k \in 1..Len(remote0) : remote0[k].name \notin NamesOf(manifest)
    /\ HasDuplicateName

\* C10: a run whose mode is none of add, update, delete issues no Delete.
C10_DeleteOnlyInDeleteMode ==
    mode \notin {"add", "update", "delete"} =>
        \A i \in CallIdx : calls[i].op # "Delete"

====
